---- MODULE Spec2Model ----
(***************************************************************************)
(* Bounded-sequence views of seqan3: view::take (view_take, take_fn) and   *)
(* views::take_until (view_take_until with basic_iterator,                 *)
(* basic_consume_iterator and basic_sentinel).                             *)
(*                                                                         *)
(* One behaviour of the model is one use of one view: the inputs (the      *)
(* underlying range, the template parameters, the requested size or the    *)
(* functor) are drawn in Init, the view is built by the adaptor or by the  *)
(* constructor, begin() makes a cursor, and the cursor is compared to the  *)
(* sentinel, dereferenced and moved.  Positions are 0-based offsets from   *)
(* the begin of the underlying range; Len(s) is the underlying end.        *)
(***************************************************************************)
EXTENDS Integers, Sequences, FiniteSets, TLC

\* ------------------------------------------------------------------ bounds
\* Longest underlying range.
MaxLen == 4
\* Number of calls of begin() on one view.
MaxBegins == 2
\* Width of size_t in the model; arithmetic on pos and target_size wraps
\* modulo 2^SizeBits as unsigned arithmetic does in the build.
SizeBits == 4

SizeMod == 2 ^ SizeBits

\* Largest dimension of the alignment matrix.
MaxDim == 3
\* Largest absolute value of a bound of the band.
MaxBand == 3
\* Width of dimension_type and cmp_int_type in the model.
DimBits == 5

\* The values an element of the underlying range can have.
Elem == {"a", "b"}

RECURSIVE SeqsOfLen(_)
SeqsOfLen(k) ==
    IF k = 0 THEN {<< >>}
    ELSE {Append(t, e) : t \in SeqsOfLen(k - 1), e \in Elem}

\* The underlying ranges of the model.
Ranges == UNION {SeqsOfLen(k) : k \in 0..MaxLen}

\* Requested sizes: everything up to one more than the longest range.
Sizes == 0..(MaxLen + 1)

\* Traversal strength of the underlying range (its iterator concept).
Classes == {"input", "forward", "bidirectional", "random_access", "contiguous"}

Min(x, y) == IF x <= y THEN x ELSE y

\* ------------------------------------------------------------------- state
VARIABLES
    kind,               \* "take" or "take_until": which adaptor is used
    s,                  \* urange: the elements of the underlying range
    n,                  \* the size argument of take
    fun,                \* the functor of take_until: the elements it is true on
    regular,            \* whether fun_t models std::regular_invocable (calling
                        \* it changes nothing and repeats its answer); its
                        \* answers in this use are those of fun either way
    exactly,            \* template parameter of view_take / take_fn
    or_throw,           \* template parameter of both views
    and_consume,        \* template parameter of view_take_until
    cls,                \* traversal strength of urng_t
    sized,              \* std::ranges::SizedRange<urng_t>
    forwarding,         \* ForwardingRange<urng_t>
    strk,               \* "string_view", "const_string" or "other"
    pc,                 \* "start", "view", "iter" or "thrown"
    entry,              \* "none", "adaptor" (take_fn / take_until_fn) or "ctor"
    rep,                \* the type returned: "none", "string_view", "span",
                        \* "subrange", "view_take" or "view_take_until"
    ctor_size,          \* the size the representation was built with
    target_size,        \* view_take::target_size (length of a slice)
    base,               \* position of the underlying iterator
    pos,                \* iterator_type::pos
    max_pos,            \* iterator_type::max_pos
    at_end_gracefully,  \* basic_consume_iterator::at_end_gracefully
    err,                \* "none", "invalid_argument", "unexpected_end_of_input"
    out,                \* the elements the standard traversal dereferenced
    proto,              \* where the standard traversal stands, see below
    begins,             \* number of begin() calls so far
    calls,              \* invocations of the functor by the standard
                        \* traversal, begin() included
    prior,              \* the elements the earlier cursors of the view
                        \* yielded, Abandoned if one of them was not
                        \* traversed to its end in the standard way
    find_in_every_cell,     \* traits_type::find_in_every_cell_type::value
    find_in_last_row,       \* traits_type::find_in_last_row_type::value
    find_in_last_column,    \* traits_type::find_in_last_column_type::value
    total,              \* balance_trailing_gaps: the score to be updated
    dimension_first,    \* the horizontal matrix dimension
    dimension_second,   \* the vertical matrix dimension
    lower_bound,        \* band.lower_bound
    upper_bound,        \* band.upper_bound
    gap_size,           \* the values gap_size had, in the order computed
    bpc                 \* "idle", "call", "returned" or "aborted" (an
                        \* assertion failed)

inputs == <<kind, s, n, fun, regular, exactly, or_throw, and_consume,
            cls, sized, forwarding, strk>>

view == <<entry, rep, ctor_size, target_size>>

cursor == <<base, pos, max_pos, at_end_gracefully>>

trace == <<out, proto, begins, calls, prior>>

balance == <<find_in_every_cell, find_in_last_row, find_in_last_column,
             total, dimension_first, dimension_second, lower_bound,
             upper_bound, gap_size, bpc>>

vars == <<inputs, pc, view, cursor, err, trace, balance>>

\* Value of prior once a cursor was dropped before the end of its traversal
\* or used in another way.
Abandoned == <<"abandoned">>

\* --------------------------------------------------------------- view_take
\* std::ranges::size(urange) of a sized underlying range.
USize == Len(s)

\* The size the constructor of view_take reads: it calls
\* seqan3::size(_urange) after the member initialiser moved _urange into
\* urange.  A moved-from view either keeps its elements (views that are
\* copied by a move, as ref_view) or is left empty.
MovedFromSizes == {0, USize}

\* Mutant: the adaptor rejects a short range without or_throw too.
SafeguardThrows_Always(size) ==
    sized /\ size > USize

\* Mutant: the adaptor checks the size only for take_exactly_or_throw.
SafeguardThrows_OnlyExactly(size) ==
    sized /\ or_throw /\ exactly /\ size > USize

\* take_fn::operator(): "safeguard against wrong size", the throwing branch.
SafeguardThrows(size) ==
    sized /\ or_throw /\ size > USize

\* Mutant: the adaptor does not clamp the target size.
SafeguardSize_NoClamp(size) ==
    size

\* take_fn::operator(): the target_size after the safeguard.
SafeguardSize(size) ==
    IF sized /\ ~or_throw THEN Min(size, USize) ELSE size

\* Mutant: the random-access branch is tried before the contiguous one.
TakeRep_SubrangeFirst ==
    IF strk = "string_view" THEN "string_view"
    ELSE IF strk = "const_string" THEN "string_view"
    ELSE IF forwarding /\ cls \in {"random_access", "contiguous"} /\ sized
         THEN "subrange"
    ELSE IF forwarding /\ cls = "contiguous" /\ sized THEN "span"
    ELSE "view_take"

\* take_fn::operator(): the if-constexpr chain that picks the return type.
TakeRep ==
    IF strk = "string_view" THEN "string_view"
    ELSE IF strk = "const_string" THEN "string_view"
    ELSE IF forwarding /\ cls = "contiguous" /\ sized THEN "span"
    ELSE IF forwarding /\ cls \in {"random_access", "contiguous"} /\ sized
         THEN "subrange"
    ELSE "view_take"

\* Mutant: the slice ends one element early.
SliceSize_Short(t) ==
    IF t > 0 THEN t - 1 ELSE 0

\* Length of the slice a non-view_take branch returns for target size t:
\* urange.substr(0, t) stops at the end of the string_view, the other
\* branches take t as it is.
SliceSize(t) ==
    IF strk = "string_view" THEN Min(t, USize) ELSE t

\* Mutant: the constructor compares the sizes the wrong way round.
CtorThrows_Reversed(msize, size) ==
    exactly /\ or_throw /\ sized /\ msize > size

\* view_take::view_take(urng_t, size_t): the check that throws; msize is
\* what seqan3::size(_urange) returns.
CtorThrows(msize, size) ==
    exactly /\ or_throw /\ sized /\ msize < size

\* Mutant: operator++ never touches the view.
HostShrinks_Never ==
    FALSE

\* Mutant: every exactly-view shrinks, whatever the underlying iterator.
HostShrinks_Always ==
    exactly

\* exactly && !std::ForwardIterator<base_base_t>: the iterator carries
\* host_ptr and operator++ shrinks the view.
HostShrinks ==
    exactly /\ cls = "input"

\* Mutant: size() returns target_size whatever the underlying size.
ViewSizeOf_NoMin(t) ==
    t

\* view_take::size() (both overloads) of a view whose target_size is t.
ViewSizeOf(t) ==
    IF exactly THEN t ELSE Min(t, USize)

\* view_take::size(); only called where it exists.
ViewSize ==
    ViewSizeOf(target_size)

\* Mutant: the iterator ends silently at the underlying end.
TakeEq_NoThrow(p, mp, b) ==
    IF p >= mp THEN "true"
    ELSE IF b = Len(s) THEN "true" ELSE "false"

\* Mutant: the underlying end is checked before the offset.
TakeEq_EndFirst(p, mp, b) ==
    IF b = Len(s)
    THEN (IF or_throw THEN "throw" ELSE "true")
    ELSE IF p >= mp THEN "true" ELSE "false"

\* Mutant: the offset check is off by one.
TakeEq_OffByOne(p, mp, b) ==
    IF p > mp THEN "true"
    ELSE IF b = Len(s)
         THEN (IF or_throw THEN "throw" ELSE "true")
         ELSE "false"

\* iterator_type::operator==(sentinel_type): "true", "false" or "throw".
TakeEq(p, mp, b) ==
    IF p >= mp THEN "true"
    ELSE IF b = Len(s)
         THEN (IF or_throw THEN "throw" ELSE "true")
         ELSE "false"

\* The elements a view_take cursor with offset p, bound mp and position b
\* yields from there on: operator== false, operator*, operator++, again.
RECURSIVE TakeWalk(_, _, _)
TakeWalk(p, mp, b) ==
    IF TakeEq(p, mp, b) = "false"
    THEN <<s[b + 1]>> \o TakeWalk(p + 1, mp, b + 1)
    ELSE << >>

\* Comparison of the iterator of a string_view, span or subrange with its
\* end.
SliceEq(b) ==
    IF b = target_size THEN "true" ELSE "false"

\* --------------------------------------------------------- view_take_until
\* Mutant: and_consume selects the consuming iterator for every range.
UseConsumeIterator_AnyClass ==
    and_consume

\* view_take_until::iterator: the consuming iterator is chosen for
\* and_consume over a range that is not a forward_range.
UseConsumeIterator ==
    and_consume /\ cls = "input"

\* The traversal strength the iterator of view_take_until advertises:
\* basic_iterator takes iterator_category and iterator_concept from the
\* underlying iterator, basic_consume_iterator is always an input iterator.
IteratorConcept ==
    IF UseConsumeIterator THEN "input" ELSE cls

\* fun(**this) at position b.
FunAt(b) == s[b + 1] \in fun

\* Mutant: operator++ does not consume the run of matching elements.
SkipRun_NoLoop(b) ==
    b

\* The while loop of basic_consume_iterator::operator++: the position it
\* stops at when it starts at b.
RECURSIVE SkipRun(_)
SkipRun(b) ==
    IF b # Len(s) /\ FunAt(b) THEN SkipRun(b + 1) ELSE b

\* Mutant: operator++ steps over the element after the run as well.
ConsumeInc_SkipsOne(b, g) ==
    LET b1 == b + 1
        b2 == SkipRun(b1)
    IN  [base |-> IF b2 # b1 /\ b2 < Len(s) THEN b2 + 1 ELSE b2,
         at_end_gracefully |-> (g \/ b2 # b1)]

\* Mutant: operator++ assigns the flag from its own loop only.
ConsumeInc_ResetsFlag(b, g) ==
    LET b1 == b + 1
        b2 == SkipRun(b1)
    IN  [base |-> b2, at_end_gracefully |-> (b2 # b1)]

\* basic_consume_iterator::operator++ from position b with flag g.
ConsumeInc(b, g) ==
    LET b1 == b + 1
        b2 == SkipRun(b1)
    IN  [base |-> b2, at_end_gracefully |-> (g \/ b2 # b1)]

\* Mutant: the constructor does not look at the first element.
ConsumeCtor_NoCheck(b) ==
    [base |-> b, at_end_gracefully |-> FALSE]

\* basic_consume_iterator::basic_consume_iterator(it, fun, sen) at b.
ConsumeCtor(b) ==
    IF b # Len(s) /\ FunAt(b)
    THEN ConsumeInc(b, TRUE)
    ELSE [base |-> b, at_end_gracefully |-> FALSE]

\* Mutant: the sentinel ends silently at the underlying end.
UntilEq_NoThrow(b) ==
    IF b = Len(s)
    THEN "true"
    ELSE (IF FunAt(b) THEN "true" ELSE "false")

\* Mutant: the sentinel stops where the functor is false.
UntilEq_Inverted(b) ==
    IF b = Len(s)
    THEN (IF or_throw THEN "throw" ELSE "true")
    ELSE (IF FunAt(b) THEN "false" ELSE "true")

\* operator==(basic_iterator, basic_sentinel).
UntilEq(b) ==
    IF b = Len(s)
    THEN (IF or_throw THEN "throw" ELSE "true")
    ELSE (IF FunAt(b) THEN "true" ELSE "false")

\* The elements a basic_iterator at position b yields from there on:
\* operator==(basic_iterator, basic_sentinel) false, operator*, operator++,
\* again.
RECURSIVE UntilWalk(_)
UntilWalk(b) ==
    IF UntilEq(b) = "false"
    THEN <<s[b + 1]>> \o UntilWalk(b + 1)
    ELSE << >>

\* Mutant: the underlying end is checked before at_end_gracefully.
ConsumeEq_EndFirst(g, b) ==
    IF b = Len(s)
    THEN (IF or_throw THEN "throw" ELSE "true")
    ELSE IF g THEN "true"
         ELSE (IF FunAt(b) THEN "true" ELSE "false")

\* Mutant: the consuming iterator ends silently at the underlying end.
ConsumeEq_NoThrow(g, b) ==
    IF g THEN "true"
    ELSE IF b = Len(s)
         THEN "true"
         ELSE (IF FunAt(b) THEN "true" ELSE "false")

\* basic_consume_iterator::operator==(sentinel_type).
ConsumeEq(g, b) ==
    IF g THEN "true"
    ELSE IF b = Len(s)
         THEN (IF or_throw THEN "throw" ELSE "true")
         ELSE (IF FunAt(b) THEN "true" ELSE "false")

\* Invocations of fun by the while loop of operator++ started at b.
RECURSIVE SkipRunCalls(_)
SkipRunCalls(b) ==
    IF b = Len(s) THEN 0
    ELSE IF FunAt(b) THEN 1 + SkipRunCalls(b + 1) ELSE 1

\* Invocations of fun by basic_consume_iterator::operator++ at b.
ConsumeIncCalls(b) ==
    SkipRunCalls(b + 1)

\* Invocations of fun by the constructor of basic_consume_iterator at b.
ConsumeCtorCalls(b) ==
    IF b = Len(s) THEN 0
    ELSE IF FunAt(b) THEN 1 + ConsumeIncCalls(b) ELSE 1

\* Mutant: the comparison invokes the predicate twice.
UntilEqCalls_Twice(b) ==
    IF b = Len(s) THEN 0 ELSE 2

\* Invocations of the predicate by operator==(basic_iterator,
\* basic_sentinel): none at the underlying end.
UntilEqCalls(b) ==
    IF b = Len(s) THEN 0 ELSE 1

\* Invocations of fun by basic_consume_iterator::operator==.
ConsumeEqCalls(g, b) ==
    IF g \/ b = Len(s) THEN 0 ELSE 1

\* ------------------------------------------------------------------- Init
\* What urng_t can be for take: a string_view and a string const & are
\* contiguous, sized forwarding ranges.
SourceOK(c, sz, fw, sk) ==
    sk # "other" => (c = "contiguous" /\ sz /\ fw)

\* balance_trailing_gaps is not called.
NoBalance ==
    /\ find_in_every_cell = FALSE
    /\ find_in_last_row = FALSE
    /\ find_in_last_column = FALSE
    /\ total = 0
    /\ dimension_first = 0
    /\ dimension_second = 0
    /\ lower_bound = 0
    /\ upper_bound = 0
    /\ gap_size = << >>
    /\ bpc = "idle"

Init ==
    /\ kind \in {"take", "take_until"}
    /\ s \in Ranges
    /\ or_throw \in BOOLEAN
    /\ cls \in Classes
    /\ IF kind = "take"
       THEN /\ n \in Sizes
            /\ exactly \in BOOLEAN
            /\ sized \in BOOLEAN
            /\ forwarding \in BOOLEAN
            /\ strk \in {"string_view", "const_string", "other"}
            /\ SourceOK(cls, sized, forwarding, strk)
            /\ fun = {}
            /\ regular = TRUE
            /\ and_consume = FALSE
       ELSE /\ fun \in SUBSET Elem
            /\ regular \in BOOLEAN
            /\ and_consume \in BOOLEAN
            /\ n = 0
            /\ exactly = FALSE
            /\ sized = FALSE
            /\ forwarding = FALSE
            /\ strk = "other"
    /\ pc = "start"
    /\ entry = "none"
    /\ rep = "none"
    /\ ctor_size = 0
    /\ target_size = 0
    /\ base = 0
    /\ pos = 0
    /\ max_pos = 0
    /\ at_end_gracefully = FALSE
    /\ err = "none"
    /\ out = << >>
    /\ proto = "none"
    /\ begins = 0
    /\ calls = 0
    /\ prior = << >>
    /\ NoBalance

\* ----------------------------------------------------------- construction
\* The view or slice is built with size t by the entry point e.
Built(e, r, t) ==
    /\ pc' = "view"
    /\ entry' = e
    /\ rep' = r
    /\ ctor_size' = t
    /\ target_size' = t
    /\ UNCHANGED <<inputs, cursor, err, trace,
                   balance>>

\* The entry point e throws std::invalid_argument.
Rejected(e) ==
    /\ pc' = "thrown"
    /\ entry' = e
    /\ err' = "invalid_argument"
    /\ UNCHANGED <<inputs, rep, ctor_size, target_size, cursor, trace,
                   balance>>

\* take_fn::operator()(urng_t && urange, size_t target_size)
TakeFn ==
    /\ pc = "start"
    /\ kind = "take"
    /\ IF SafeguardThrows(n)
       THEN Rejected("adaptor")
       ELSE LET t == SafeguardSize(n)
            IN  IF TakeRep # "view_take"
                THEN Built("adaptor", TakeRep, SliceSize(t))
                ELSE \E msize \in MovedFromSizes :
                        IF CtorThrows(msize, t)
                        THEN Rejected("adaptor")
                        ELSE Built("adaptor", "view_take", t)

\* view_take::view_take(urng_t _urange, size_t const _size), called directly
ViewTakeCtor ==
    /\ pc = "start"
    /\ kind = "take"
    /\ \E msize \in MovedFromSizes :
          IF CtorThrows(msize, n)
          THEN Rejected("ctor")
          ELSE Built("ctor", "view_take", n)

\* take_until_fn::operator()(urng_t && urange, fun_t && fun), which only
\* calls view_take_until::view_take_until(urng_t, fun_t)
TakeUntilFn ==
    /\ pc = "start"
    /\ kind = "take_until"
    /\ Built("adaptor", "view_take_until", 0)

\* ------------------------------------------------- the cursor in use
\* The outcome of comparing the cursor in use with its sentinel.
CursorEq ==
    IF rep = "view_take" THEN TakeEq(pos, max_pos, base)
    ELSE IF rep = "view_take_until"
         THEN (IF UseConsumeIterator
               THEN ConsumeEq(at_end_gracefully, base)
               ELSE UntilEq(base))
         ELSE SliceEq(base)

\* Invocations of the functor by that comparison.
CursorEqCalls ==
    IF rep # "view_take_until" THEN 0
    ELSE IF UseConsumeIterator
         THEN ConsumeEqCalls(at_end_gracefully, base)
         ELSE UntilEqCalls(base)

\* Invocations of the functor by operator++ of the cursor in use.
CursorIncCalls ==
    IF rep = "view_take_until" /\ UseConsumeIterator
    THEN ConsumeIncCalls(base)
    ELSE 0

\* --------------------------------------------------------------- begin()
\* std::ranges::begin(urange): a single-pass range continues where it was
\* left, every other range starts over.
UBegin == IF cls = "input" THEN base ELSE 0

\* Invocations of the functor by begin(): those of the constructor of the
\* consuming iterator.
BeginCalls ==
    IF rep = "view_take_until" /\ UseConsumeIterator
    THEN ConsumeCtorCalls(UBegin)
    ELSE 0

\* A new cursor starts a new traversal.
Started ==
    /\ pc' = "iter"
    /\ out' = << >>
    /\ proto' = "cmp"
    /\ begins' = begins + 1
    /\ calls' = BeginCalls
    /\ prior' = IF begins = 0 THEN << >>
                ELSE IF proto = "done" /\ prior # Abandoned THEN prior \o out
                ELSE Abandoned
    /\ UNCHANGED <<inputs, view, err,
                   balance>>

\* view_take::begin(): {seqan3::begin(urange), 0, target_size, this}
ViewTakeBegin ==
    /\ pc \in {"view", "iter"}
    /\ rep = "view_take"
    /\ begins < MaxBegins
    /\ base' = UBegin
    /\ pos' = 0
    /\ max_pos' = target_size
    /\ UNCHANGED at_end_gracefully
    /\ Started

\* begin() of the string_view, span or subrange returned by take_fn
SliceBegin ==
    /\ pc \in {"view", "iter"}
    /\ rep \in {"string_view", "span", "subrange"}
    /\ begins < MaxBegins
    /\ base' = 0
    /\ UNCHANGED <<pos, max_pos, at_end_gracefully>>
    /\ Started

\* view_take_until::begin(): the constructor of basic_consume_iterator
\* runs for the consuming iterator, basic_iterator only stores its base.
TakeUntilBegin ==
    /\ pc \in {"view", "iter"}
    /\ rep = "view_take_until"
    /\ begins < MaxBegins
    /\ IF UseConsumeIterator
       THEN /\ base' = ConsumeCtor(UBegin).base
            /\ at_end_gracefully' = ConsumeCtor(UBegin).at_end_gracefully
       ELSE /\ base' = UBegin
            /\ at_end_gracefully' = FALSE
    /\ UNCHANGED <<pos, max_pos>>
    /\ Started

\* ------------------------------------------------------ cursor == sentinel
\* The standard traversal is: compare with the sentinel; if unequal,
\* dereference, increment and compare again.  proto says what the
\* traversal does next ("cmp", "deref", "adv"), that it is over ("done":
\* the comparison was true or threw) or that the caller did something else
\* ("off"; out and calls are dropped then, they record a standard traversal).
Left ==
    /\ proto' = "off"
    /\ out' = << >>
    /\ calls' = 0

\* Mutant: the comparison reads the next element of the underlying range.
Compared_MovesBase(r) ==
    /\ IF proto = "cmp"
       THEN /\ proto' = IF r = "false" THEN "deref" ELSE "done"
            /\ out' = out
            /\ calls' = calls + CursorEqCalls
       ELSE Left
    /\ IF r = "throw"
       THEN pc' = "thrown" /\ err' = "unexpected_end_of_input"
       ELSE UNCHANGED <<pc, err>>
    /\ base' = IF base < Len(s) THEN base + 1 ELSE base
    /\ UNCHANGED <<inputs, view, pos, max_pos, at_end_gracefully, begins,
                   prior,
                   balance>>

\* Mutant: the comparison stores its outcome in the cursor.
Compared_CachesEnd(r) ==
    /\ IF proto = "cmp"
       THEN /\ proto' = IF r = "false" THEN "deref" ELSE "done"
            /\ out' = out
            /\ calls' = calls + CursorEqCalls
       ELSE Left
    /\ IF r = "throw"
       THEN pc' = "thrown" /\ err' = "unexpected_end_of_input"
       ELSE UNCHANGED <<pc, err>>
    /\ at_end_gracefully' = (r = "true")
    /\ UNCHANGED <<inputs, view, base, pos, max_pos, begins, prior,
                   balance>>

\* A comparison had the outcome r; a throw ends the use of the cursor.
Compared(r) ==
    /\ IF proto = "cmp"
       THEN /\ proto' = IF r = "false" THEN "deref" ELSE "done"
            /\ out' = out
            /\ calls' = calls + CursorEqCalls
       ELSE Left
    /\ IF r = "throw"
       THEN pc' = "thrown" /\ err' = "unexpected_end_of_input"
       ELSE UNCHANGED <<pc, err>>
    /\ UNCHANGED <<inputs, view, cursor, begins, prior,
                   balance>>

\* view_take::iterator_type::operator==(sentinel_type const &)
ViewTakeCompare ==
    /\ pc = "iter"
    /\ rep = "view_take"
    /\ Compared(TakeEq(pos, max_pos, base))

\* iterator == end() of a string_view, span or subrange
SliceCompare ==
    /\ pc = "iter"
    /\ rep \in {"string_view", "span", "subrange"}
    /\ Compared(SliceEq(base))

\* operator==(basic_iterator const &, basic_sentinel const &)
TakeUntilCompare ==
    /\ pc = "iter"
    /\ rep = "view_take_until"
    /\ ~UseConsumeIterator
    /\ Compared(UntilEq(base))

\* basic_consume_iterator::operator==(sentinel_type const &)
ConsumeCompare ==
    /\ pc = "iter"
    /\ rep = "view_take_until"
    /\ UseConsumeIterator
    /\ Compared(ConsumeEq(at_end_gracefully, base))

\* ------------------------------------------------------------- operator*
\* The traversal reads the element the cursor points to (inherited from
\* the underlying iterator by every cursor type).
Deref ==
    /\ pc = "iter"
    /\ proto = "deref"
    /\ base < Len(s)
    /\ out' = Append(out, s[base + 1])
    /\ proto' = "adv"
    /\ UNCHANGED <<inputs, pc, view, cursor, err, begins, calls, prior,
                   balance>>

\* ------------------------------------------------------------ operator++
\* Mutant: an increment that reaches the underlying end throws under
\* or_throw.
Advanced_ThrowsAtEnd ==
    /\ IF proto = "adv"
       THEN proto' = "cmp" /\ out' = out /\ calls' = calls + CursorIncCalls
       ELSE Left
    /\ IF or_throw /\ base' = Len(s)
       THEN pc' = "thrown" /\ err' = "unexpected_end_of_input"
       ELSE UNCHANGED <<pc, err>>
    /\ UNCHANGED <<inputs, entry, rep, ctor_size, begins, prior,
                   balance>>

\* Bookkeeping of an increment.
Advanced ==
    /\ IF proto = "adv"
       THEN proto' = "cmp" /\ out' = out /\ calls' = calls + CursorIncCalls
       ELSE Left
    /\ UNCHANGED <<inputs, pc, entry, rep, ctor_size, err, begins, prior,
                   balance>>

\* view_take::iterator_type::operator++()
ViewTakeInc ==
    /\ pc = "iter"
    /\ rep = "view_take"
    /\ base < Len(s)
    /\ base' = base + 1
    /\ pos' = (pos + 1) % SizeMod
    /\ target_size' = IF HostShrinks
                      THEN (target_size - 1) % SizeMod
                      ELSE target_size
    /\ UNCHANGED <<max_pos, at_end_gracefully>>
    /\ Advanced

\* operator++ of the iterator of a string_view, span or subrange
SliceInc ==
    /\ pc = "iter"
    /\ rep \in {"string_view", "span", "subrange"}
    /\ base < target_size
    /\ base < Len(s)
    /\ base' = base + 1
    /\ UNCHANGED <<target_size, pos, max_pos, at_end_gracefully>>
    /\ Advanced

\* basic_iterator inherits operator++ of inherited_iterator_base
TakeUntilInc ==
    /\ pc = "iter"
    /\ rep = "view_take_until"
    /\ ~UseConsumeIterator
    /\ base < Len(s)
    /\ base' = base + 1
    /\ UNCHANGED <<target_size, pos, max_pos, at_end_gracefully>>
    /\ Advanced

\* basic_consume_iterator::operator++()
ConsumeIncrement ==
    /\ pc = "iter"
    /\ rep = "view_take_until"
    /\ UseConsumeIterator
    /\ base < Len(s)
    /\ base' = ConsumeInc(base, at_end_gracefully).base
    /\ at_end_gracefully' = ConsumeInc(base, at_end_gracefully).at_end_gracefully
    /\ UNCHANGED <<target_size, pos, max_pos>>
    /\ Advanced

\* ------------------------------------------------- operator--, +=, -=
\* The caller left the standard traversal.
Moved ==
    /\ Left
    /\ UNCHANGED <<inputs, pc, view, max_pos, at_end_gracefully, err, begins,
                   prior,
                   balance>>

\* view_take::iterator_type::operator--()
ViewTakeDec ==
    /\ pc = "iter"
    /\ rep = "view_take"
    /\ cls \in {"bidirectional", "random_access", "contiguous"}
    /\ base > 0
    /\ base' = base - 1
    /\ pos' = (pos - 1) % SizeMod
    /\ Moved

\* Mutant: operator+= moves the underlying iterator only.
ViewTakePlusAssign_NoPos ==
    /\ pc = "iter"
    /\ rep = "view_take"
    /\ cls \in {"random_access", "contiguous"}
    /\ \E skip \in (-MaxLen)..MaxLen :
          /\ skip # 0
          /\ base + skip \in 0..Len(s)
          /\ base' = base + skip
          /\ pos' = pos
    /\ Moved

\* view_take::iterator_type::operator+=(difference_type const skip)
ViewTakePlusAssign ==
    /\ pc = "iter"
    /\ rep = "view_take"
    /\ cls \in {"random_access", "contiguous"}
    /\ \E skip \in (-MaxLen)..MaxLen :
          /\ skip # 0
          /\ base + skip \in 0..Len(s)
          /\ base' = base + skip
          /\ pos' = (pos + skip) % SizeMod
    /\ Moved

\* view_take::iterator_type::operator-=(difference_type const skip)
ViewTakeMinusAssign ==
    /\ pc = "iter"
    /\ rep = "view_take"
    /\ cls \in {"random_access", "contiguous"}
    /\ \E skip \in (-MaxLen)..MaxLen :
          /\ skip # 0
          /\ base - skip \in 0..Len(s)
          /\ base' = base - skip
          /\ pos' = (pos - skip) % SizeMod
    /\ Moved

Next ==
    \/ TakeFn
    \/ ViewTakeCtor
    \/ TakeUntilFn
    \/ ViewTakeBegin
    \/ SliceBegin
    \/ TakeUntilBegin
    \/ ViewTakeCompare
    \/ SliceCompare
    \/ TakeUntilCompare
    \/ ConsumeCompare
    \/ Deref
    \/ ViewTakeInc
    \/ SliceInc
    \/ TakeUntilInc
    \/ ConsumeIncrement
    \/ ViewTakeDec
    \/ ViewTakePlusAssign
    \/ ViewTakeMinusAssign

Spec == Init /\ [][Next]_vars

TypeOK ==
    /\ pc \in {"start", "view", "iter", "thrown"}
    /\ base \in 0..Len(s)
    /\ pos \in 0..(SizeMod - 1)
    /\ target_size \in 0..(SizeMod - 1)
    /\ Len(out) <= Len(s)

\* ------------------------------------ find_optimum_policy::balance_trailing_gaps
\* static_cast<cmp_int_type>(x), and the conversion of an unsigned result to
\* cmp_int_type: x modulo 2^DimBits, read as a signed number.
ToSigned(x) ==
    LET m == x % (2 ^ DimBits)
    IN  IF m >= 2 ^ (DimBits - 1) THEN m - 2 ^ DimBits ELSE m

\* Mutant: the band's end is not limited to the last column.
TrailingGapRow_NoMin(d1, d2, ub) ==
    ToSigned(d1 - ToSigned(ub + d2))

\* gap_size of the first block: the band ends before crossing the last
\* column.
TrailingGapRow(d1, d2, ub) ==
    ToSigned(d1 - Min(ToSigned(ub + d2), ToSigned(d1)))

\* Mutant: the band's end is not limited to the last row.
TrailingGapColumn_NoMin(d1, d2, lb) ==
    ToSigned(d2 - ToSigned(d1 - lb))

\* gap_size of the second block: the band ends before crossing the last
\* row.
TrailingGapColumn(d1, d2, lb) ==
    ToSigned(d2 - Min(ToSigned(d1 - lb), ToSigned(d2)))

\* What scheme.score(gap_size) can return: the gap scheme is a template
\* parameter, any of a few values.
Scores == {-2, -1, 0}

\* No view is in use.
NoView ==
    /\ kind = "none"
    /\ s = << >>
    /\ n = 0
    /\ fun = {}
    /\ regular = TRUE
    /\ exactly = FALSE
    /\ or_throw = FALSE
    /\ and_consume = FALSE
    /\ cls = "input"
    /\ sized = FALSE
    /\ forwarding = FALSE
    /\ strk = "other"
    /\ pc = "start"
    /\ entry = "none"
    /\ rep = "none"
    /\ ctor_size = 0
    /\ target_size = 0
    /\ base = 0
    /\ pos = 0
    /\ max_pos = 0
    /\ at_end_gracefully = FALSE
    /\ err = "none"
    /\ out = << >>
    /\ proto = "none"
    /\ begins = 0
    /\ calls = 0
    /\ prior = << >>

\* The arguments and the traits of a call of balance_trailing_gaps.
InitBalance ==
    /\ NoView
    /\ find_in_every_cell \in BOOLEAN
    /\ find_in_last_row \in BOOLEAN
    /\ find_in_last_column \in BOOLEAN
    /\ total \in {-1, 0, 1}
    /\ dimension_first \in 0..MaxDim
    /\ dimension_second \in 0..MaxDim
    /\ lower_bound \in (-MaxBand)..MaxBand
    /\ upper_bound \in (-MaxBand)..MaxBand
    /\ gap_size = << >>
    /\ bpc = "call"

\* balance_trailing_gaps(total, dimension_first, dimension_second, band,
\* scheme).  A failing assert aborts the program unless the build defines
\* NDEBUG.
BalanceTrailingGaps ==
    /\ bpc = "call"
    /\ LET row == ~find_in_last_row /\ ~find_in_every_cell
           col == ~find_in_last_column /\ ~find_in_every_cell
           g1 == TrailingGapRow(dimension_first, dimension_second,
                                upper_bound)
           g2 == TrailingGapColumn(dimension_first, dimension_second,
                                   lower_bound)
           gs1 == IF row THEN <<g1>> ELSE << >>
       IN  \E asserts \in BOOLEAN, sc1 \in Scores, sc2 \in Scores :
              LET t1 == IF row THEN total + sc1 ELSE total
              IN  IF row /\ asserts /\ g1 < 0
                  THEN /\ bpc' = "aborted"
                       /\ gap_size' = gs1
                       /\ total' = total
                  ELSE IF col /\ asserts /\ g2 < 0
                  THEN /\ bpc' = "aborted"
                       /\ gap_size' = gs1 \o <<g2>>
                       /\ total' = t1
                  ELSE /\ bpc' = "returned"
                       /\ gap_size' = gs1 \o (IF col THEN <<g2>> ELSE << >>)
                       /\ total' = IF col THEN t1 + sc2 ELSE t1
    /\ UNCHANGED <<find_in_every_cell, find_in_last_row, find_in_last_column,
                   dimension_first, dimension_second, lower_bound,
                   upper_bound>>
    /\ UNCHANGED <<inputs, pc, view, cursor, err, trace>>

NextBalance ==
    BalanceTrailingGaps

SpecBalance == InitBalance /\ [][NextBalance]_vars

\* ================================================================== claims
\* A standard traversal of the first cursor of the view, possibly not yet
\* finished.
Std == begins = 1 /\ proto \in {"cmp", "deref", "adv", "done"}

\* The first k elements of the underlying range.
Prefix(k) == SubSeq(s, 1, k)

\* The 1-based indices of the elements the functor is true on.
Matches == {i \in 1..Len(s) : s[i] \in fun}

\* 1-based index of the first match, Len(s) + 1 if there is none.
FirstMatch ==
    IF Matches = {} THEN Len(s) + 1
    ELSE CHOOSE i \in Matches : \A j \in Matches : i <= j

\* 1-based index of the first element after the first match that the
\* functor is false on, Len(s) + 1 if there is none.
RunEnd ==
    LET after == {j \in 1..Len(s) : j > FirstMatch /\ s[j] \notin fun}
    IN  IF after = {} THEN Len(s) + 1
        ELSE CHOOSE j \in after : \A k \in after : j <= k

\* C1: a standard traversal of take without or_throw yields the elements
\* of s in order, never more than min(length(s), n) of them, and exactly
\* min(length(s), n) when it is over.
C1_TakeYieldsPrefix ==
    (kind = "take" /\ ~or_throw /\ Std) =>
        /\ out = Prefix(Len(out))
        /\ Len(out) <= Min(Len(s), n)
        /\ proto = "done" => Len(out) = Min(Len(s), n)

C1_Witness ==
    /\ kind = "take" /\ ~or_throw /\ Std /\ proto = "done"
    /\ rep = "view_take"
    /\ n >= 2 /\ n < Len(s)
    /\ out = Prefix(n)

\* C2: a standard traversal of take_until without or_throw, consuming or
\* not, yields the elements of s before the first one the functor is true
\* on, in order, and all of s if there is no such element.
C2_TakeUntilYieldsPrefix ==
    (kind = "take_until" /\ ~or_throw /\ Std) =>
        /\ out = Prefix(Len(out))
        /\ Len(out) <= FirstMatch - 1
        /\ proto = "done" => out = Prefix(FirstMatch - 1)

C2_Witness ==
    /\ kind = "take_until" /\ ~or_throw /\ Std /\ proto = "done"
    /\ Len(s) = 4 /\ FirstMatch = 3
    /\ out = Prefix(2)

\* C3: consuming mode (and_consume over a single-pass range): when a full
\* traversal is over and the functor matched, the view yielded the elements
\* before the first match and the underlying position is at the first
\* element after the first match that does not satisfy the functor, or at
\* the underlying end if there is none.
C3_ConsumingLeavesPositionAfterRun ==
    (kind = "take_until" /\ UseConsumeIterator /\ Std /\ proto = "done"
        /\ Matches # {}) =>
        /\ out = Prefix(FirstMatch - 1)
        /\ base = RunEnd - 1

C3_Witness ==
    /\ kind = "take_until" /\ and_consume /\ cls = "input"
    /\ Std /\ proto = "done"
    /\ s = <<"a", "b", "b", "a">> /\ fun = {"b"}
    /\ out = <<"a">>
    /\ base = 3

\* C4: non-consuming mode (and_consume false, or a range that supports
\* multiple passes): when a full traversal is over and the functor matched,
\* the view yielded the elements before the first match and the underlying
\* position is at the first matching element.
C4_NonConsumingLeavesPositionAtMatch ==
    (kind = "take_until" /\ (~and_consume \/ cls # "input") /\ Std
        /\ proto = "done" /\ Matches # {}) =>
        /\ out = Prefix(FirstMatch - 1)
        /\ base = FirstMatch - 1

C4_Witness ==
    /\ kind = "take_until" /\ and_consume /\ cls = "forward"
    /\ Std /\ proto = "done"
    /\ s = <<"a", "b", "b", "a">> /\ fun = {"b"}
    /\ out = <<"a">>
    /\ base = 1

\* C5: take_until with or_throw over a range the functor is true on
\* nowhere: the standard traversal ends with unexpected_end_of_input, and
\* the exception is raised only by the comparison at the underlying end,
\* after all elements of s were yielded.
C5_OrThrowRaisesAfterAllYielded ==
    (kind = "take_until" /\ or_throw /\ Matches = {} /\ Std) =>
        /\ out = Prefix(Len(out))
        /\ proto = "done" => err = "unexpected_end_of_input"
        /\ err # "none" =>
              /\ err = "unexpected_end_of_input"
              /\ proto = "done"
              /\ base = Len(s)
              /\ out = s

C5_Witness ==
    /\ kind = "take_until" /\ or_throw /\ Matches = {} /\ Std
    /\ UseConsumeIterator
    /\ Len(s) >= 2
    /\ err = "unexpected_end_of_input"
    /\ out = s

\* What C6 says of a use of take (built or rejected): no error at
\* construction, and the traversal ends by raising unexpected_end_of_input
\* at the underlying end after yielding all of s.
RaisesAtTrueEnd ==
    /\ err # "invalid_argument"
    /\ out = Prefix(Len(out))
    /\ proto = "done" => err = "unexpected_end_of_input"
    /\ err = "unexpected_end_of_input" =>
          /\ proto = "done"
          /\ base = Len(s)
          /\ out = s

\* The uses of take C6 is about.
C6_Case ==
    /\ kind = "take" /\ cls = "input" /\ ~exactly /\ or_throw
    /\ n > Len(s)
    /\ pc # "start" /\ begins <= 1 /\ proto # "off"

\* C6 as claimed: for every single-pass s and n > length(s), take with
\* exactly = false and or_throw = true yields all of s and then raises
\* unexpected_end_of_input at the comparison at the underlying end.
C6_Original ==
    C6_Case => RaisesAtTrueEnd

\* C6 as amended: the same, for a single-pass s whose size is not knowable
\* or a view built by the constructor of view_take; the adaptor rejects a
\* sized single-pass range shorter than n with invalid_argument.
C6_UnsizedRaisesAtTrueEnd ==
    (C6_Case /\ (~sized \/ entry = "ctor")) => RaisesAtTrueEnd

C6_Witness ==
    /\ C6_Case /\ ~sized /\ entry = "adaptor"
    /\ Len(s) >= 2
    /\ err = "unexpected_end_of_input"
    /\ proto = "done"
    /\ out = s

\* The uses of take C7 is about, once the entry point has returned or
\* thrown.
C7_Case ==
    /\ kind = "take" /\ exactly /\ or_throw
    /\ n > Len(s)
    /\ pc # "start"

\* C7 as claimed: for every s, sized or not, and n > length(s), building
\* take with exactly and or_throw raises invalid_argument at construction.
C7_Original ==
    C7_Case => (err = "invalid_argument" /\ rep = "none")

\* C7 as amended: the same for every s whose size is knowable.
C7_SizedExactlyOrThrowRejected ==
    (C7_Case /\ sized) => (err = "invalid_argument" /\ rep = "none")

C7_Witness ==
    /\ C7_Case /\ sized /\ entry = "ctor"
    /\ pc = "thrown"
    /\ err = "invalid_argument"
    /\ rep = "none"

C9_Case ==
    /\ kind = "take" /\ exactly /\ sized
    /\ n > Len(s)
    /\ pc # "start"

\* C9 as claimed: with exactly and a knowable size smaller than n the
\* constructor and the adaptor fail with invalid_argument, with or without
\* or_throw.
C9_Original ==
    C9_Case => err = "invalid_argument"

\* C9 as amended: they fail with invalid_argument when or_throw is set too;
\* without or_throw no error is raised, the adaptor clamps the target size
\* to the underlying size and the constructor keeps n.
C9_ExactlyRejectsOnlyWithOrThrow ==
    C9_Case =>
        IF or_throw
        THEN err = "invalid_argument" /\ rep = "none"
        ELSE /\ err = "none"
             /\ ctor_size = IF entry = "adaptor" THEN Len(s) ELSE n

C9_Witness ==
    /\ C9_Case /\ ~or_throw /\ entry = "adaptor"
    /\ rep = "view_take"
    /\ Len(s) >= 1
    /\ ctor_size = Len(s)
    /\ pc = "iter"

\* The uses of take C10 is about: a view_take with exactly.
C10_Case ==
    /\ kind = "take" /\ exactly /\ rep = "view_take"

\* C10 as claimed: in exactly mode size() returns the size given at
\* construction for every underlying range, single-pass or not, after any
\* cursor advances and comparisons.
C10_Original ==
    C10_Case => ViewSize = ctor_size

\* C10 as amended: that holds for an underlying range of forward or
\* stronger traversal; over a single-pass range size() returns the size
\* given at construction less the number of increments made so far, which
\* is the position of the underlying range, as an unsigned value.
C10_ExactSizeShrinksOnlyOnInput ==
    C10_Case =>
        ViewSize = IF cls = "input"
                   THEN (ctor_size - base) % SizeMod
                   ELSE ctor_size

C10_Witness ==
    /\ C10_Case /\ cls = "forward"
    /\ pc = "iter" /\ proto = "off"
    /\ base = 2
    /\ ctor_size = 3
    /\ ViewSize = 3

\* The uses of take C11 is about: a view_take with exactly over a
\* single-pass range, before its counter wraps (the k of the cursor in use
\* is the position it started at, base - pos).
C11_Case ==
    /\ kind = "take" /\ exactly /\ cls = "input" /\ rep = "view_take"
    /\ pc # "start"
    /\ base <= ctor_size

\* What C11 says with the number of elements a later cursor stops after
\* left open: size() is n less the increments made so far, and a cursor
\* of a later begin() has that size as its bound and yields the elements
\* that follow the position it started at, stopping after Stop(bound) of
\* them.
C11_Counts(Stop(_)) ==
    /\ ViewSize = ctor_size - base
    /\ (begins >= 2 /\ proto \in {"cmp", "deref", "adv", "done"}) =>
          /\ max_pos = ctor_size - (base - pos)
          /\ out = SubSeq(s, base - pos + 1, base - pos + Len(out))
          /\ proto = "done" => Len(out) = Stop(max_pos)

\* All n - k remaining elements.
C11_AllRemaining(bound) == bound

\* The n - k remaining elements, or those the underlying range still has.
C11_RemainingOrEnd(bound) == Min(bound, Len(s) - (base - pos))

\* C11 as claimed: over a single-pass source in exactly mode every
\* increment decrements the view's counter, so after k <= n increments
\* size() is n - k and a cursor of a later begin() stops after exactly the
\* remaining n - k elements.
C11_Original ==
    C11_Case => C11_Counts(C11_AllRemaining)

\* C11 as amended: the same, but the later cursor stops after the
\* remaining n - k elements or earlier, at the underlying end, when the
\* source holds fewer than n elements.
C11_LaterBeginStopsAtRemaining ==
    C11_Case => C11_Counts(C11_RemainingOrEnd)

C11_Witness ==
    /\ C11_Case /\ begins = 2 /\ proto = "done"
    /\ ctor_size = 3
    /\ max_pos = 2
    /\ Len(out) = 2
    /\ ViewSize = 0

\* The size of what take returned: size() of view_take, the length of a
\* slice.
ResultSize ==
    IF rep = "view_take" THEN ViewSize ELSE target_size

\* C12: take without exactly over a range that knows its size: size() is
\* min(n, underlying size) in every state, before and after any movement
\* of the cursor.
C12_NonExactSizeIsMin ==
    (kind = "take" /\ ~exactly /\ sized /\ rep # "none") =>
        ResultSize = Min(n, Len(s))

C12_Witness ==
    /\ kind = "take" /\ ~exactly /\ sized
    /\ rep = "view_take" /\ entry = "ctor"
    /\ n > Len(s)
    /\ pc = "iter" /\ base >= 2
    /\ ViewSize = Len(s)

\* C13: a take or take_until view without or_throw raises nothing, at
\* construction or later, and its cursor compares equal to the sentinel
\* at the underlying end.
C13_NoOrThrowNeverRaises ==
    ~or_throw =>
        /\ err = "none"
        /\ pc # "thrown"
        /\ pc # "start" => rep # "none"
        /\ (pc = "iter" /\ base = Len(s)) => CursorEq = "true"

C13_Witness ==
    /\ ~or_throw /\ kind = "take_until" /\ Matches = {}
    /\ Std /\ proto = "done"
    /\ Len(s) >= 2
    /\ base = Len(s)
    /\ out = s
    /\ err = "none"

\* C14: a comparison of a non-consuming take_until cursor with its sentinel
\* leaves the position of the underlying range where it was, and the next
\* comparison has the same outcome.
C14_NonConsumingCompareRepeatable ==
    [][TakeUntilCompare =>
          /\ base' = base
          /\ pc' = "iter" => CursorEq' = CursorEq]_vars

C14_Witness ==
    /\ kind = "take_until" /\ ~UseConsumeIterator
    /\ pc = "iter" /\ begins = 1
    /\ proto = "off"
    /\ base = 0
    /\ UntilEq(base) = "false"

\* C15: a comparison of a consuming take_until cursor or of a take cursor
\* with the sentinel changes neither the flag, the offset, the bound, the
\* view's size nor the position of the underlying range, and the next
\* comparison has the same outcome; the position of a consuming cursor
\* changes only in begin() (the constructor) and in operator++.
C15_CompareChangesNothing ==
    [][/\ (ConsumeCompare \/ ViewTakeCompare) =>
             /\ UNCHANGED <<base, pos, max_pos, at_end_gracefully,
                            target_size>>
             /\ pc' = "iter" => CursorEq' = CursorEq
       /\ (kind = "take_until" /\ UseConsumeIterator /\ base' # base) =>
             (TakeUntilBegin \/ ConsumeIncrement)]_vars

C15_Witness ==
    /\ kind = "take_until" /\ UseConsumeIterator
    /\ pc = "iter" /\ begins = 1
    /\ proto = "off"
    /\ base = 0
    /\ ~at_end_gracefully
    /\ ConsumeEq(at_end_gracefully, base) = "false"

\* C16: a string_view, span or subrange returned by the take adaptor has
\* the size and yields the elements of the view_take the adaptor builds
\* from the same range and size in its last branch.
C16_SliceEqualsGeneralView ==
    (kind = "take" /\ rep \in {"string_view", "span", "subrange"}) =>
        /\ err = "none"
        /\ target_size = ViewSizeOf(SafeguardSize(n))
        /\ Std =>
              LET general == TakeWalk(0, SafeguardSize(n), 0)
              IN  /\ out = SubSeq(general, 1, Len(out))
                  /\ Len(out) <= Len(general)
                  /\ proto = "done" => out = general

C16_Witness ==
    /\ kind = "take" /\ rep = "subrange"
    /\ Std /\ proto = "done"
    /\ n >= 2 /\ n < Len(s)
    /\ target_size = n
    /\ out = Prefix(n)

\* C17: take with n = 0 is never rejected and is empty whatever the range
\* and the configuration: the first comparison of begin() with the
\* sentinel is true, so a traversal yields nothing, never moves the
\* underlying range and raises nothing, also when s is empty under
\* or_throw.
C17_TakeZeroIsEmpty ==
    (kind = "take" /\ n = 0) =>
        /\ pc # "start" => rep # "none"
        /\ (pc = "iter" /\ begins = 1 /\ proto = "cmp") => CursorEq = "true"
        /\ Std =>
              /\ proto \in {"cmp", "done"}
              /\ out = << >>
              /\ base = 0
              /\ err = "none"
              /\ pc = "iter"

C17_Witness ==
    /\ kind = "take" /\ n = 0
    /\ s = << >> /\ or_throw
    /\ rep = "view_take"
    /\ Std /\ proto = "done"
    /\ err = "none"

\* C18: take_until over an empty range, consuming or not: without or_throw
\* the first comparison with the sentinel is true and the functor is never
\* invoked; with or_throw the first comparison throws
\* unexpected_end_of_input.
C18_TakeUntilOnEmpty ==
    (kind = "take_until" /\ s = << >>) =>
        /\ calls = 0
        /\ out = << >>
        /\ proto \notin {"deref", "adv"}
        /\ (pc = "iter" /\ proto = "cmp") =>
              CursorEq = IF or_throw THEN "throw" ELSE "true"
        /\ proto = "done" =>
              /\ err = IF or_throw THEN "unexpected_end_of_input" ELSE "none"
              /\ pc = IF or_throw THEN "thrown" ELSE "iter"

C18_Witness ==
    /\ kind = "take_until" /\ s = << >>
    /\ or_throw /\ UseConsumeIterator
    /\ begins = 1 /\ proto = "done"
    /\ err = "unexpected_end_of_input"
    /\ calls = 0

\* C19: the comparison of a consuming cursor with the sentinel is true when
\* at_end_gracefully is set; when it is not set and the underlying range is
\* at its end the comparison throws under or_throw and is true otherwise;
\* when it is not set and the range is not at its end it is false.
C19_ConsumeEqByState ==
    (kind = "take_until" /\ UseConsumeIterator /\ pc = "iter") =>
        ConsumeEq(at_end_gracefully, base) =
            IF at_end_gracefully THEN "true"
            ELSE IF base = Len(s)
                 THEN (IF or_throw THEN "throw" ELSE "true")
                 ELSE "false"

C19_Witness ==
    /\ kind = "take_until" /\ UseConsumeIterator /\ pc = "iter"
    /\ Std /\ proto = "done"
    /\ ~at_end_gracefully
    /\ base = Len(s) /\ Len(s) >= 2
    /\ ~or_throw
    /\ out = s

\* C20: after the constructor and after every operator++ a consuming cursor
\* stands at the underlying end or on an element the functor is false on;
\* the cursor of the first begin() has at_end_gracefully set exactly when a
\* match lies behind it; and no operator++ or comparison clears the flag.
C20_ConsumingTransitions ==
    /\ [](/\ (kind = "take_until" /\ UseConsumeIterator /\ pc # "start"
              /\ begins >= 1 /\ base < Len(s)) => ~FunAt(base)
          /\ (kind = "take_until" /\ UseConsumeIterator /\ begins = 1) =>
                (at_end_gracefully <=> \E i \in 1..base : s[i] \in fun))
    /\ [][(UseConsumeIterator /\ at_end_gracefully /\ begins' = begins) =>
             at_end_gracefully']_vars

C20_Witness ==
    /\ kind = "take_until" /\ UseConsumeIterator
    /\ begins = 1 /\ pc = "iter"
    /\ at_end_gracefully
    /\ s = <<"a", "b", "b", "a">> /\ fun = {"b"}
    /\ base = 3
    /\ out = <<"a">>

\* C21: over a forward or stronger range take_until with and_consume does
\* what take_until without it does: the cursor is a basic_iterator whose
\* flag is never set, a traversal yields the elements the non-consuming
\* comparison lets through, throws where that comparison throws, and stops
\* on the first element the functor is true on.
C21_ConsumeOnMultiPassIsPlain ==
    (kind = "take_until" /\ and_consume /\ cls # "input" /\ pc # "start") =>
        /\ ~at_end_gracefully
        /\ pc = "iter" => CursorEq = UntilEq(base)
        /\ Std =>
              LET plain == UntilWalk(0)
              IN  /\ out = SubSeq(plain, 1, Len(out))
                  /\ Len(out) <= Len(plain)
                  /\ proto = "done" =>
                        /\ out = plain
                        /\ base = Len(plain)
                        /\ err = IF UntilEq(Len(plain)) = "throw"
                                 THEN "unexpected_end_of_input"
                                 ELSE "none"
                        /\ Matches # {} =>
                              (base = FirstMatch - 1 /\ err = "none")

C21_Witness ==
    /\ kind = "take_until" /\ and_consume /\ cls = "forward"
    /\ Std /\ proto = "done"
    /\ s = <<"a", "b", "b", "a">> /\ fun = {"b"}
    /\ base = 1
    /\ out = <<"a">>

\* C22: a cursor operation (comparison, dereference, increment, decrement,
\* jump) never changes the functor or the size the view was built with; it
\* changes target_size only when it is operator++ of an exactly view over a
\* single-pass range, which decrements it.
C22_Original ==
    [][(pc = "iter" /\ begins' = begins) =>
          (target_size' = target_size /\ fun' = fun)]_vars

C22_DescriptorChangesOnlyByShrink ==
    [][(pc = "iter" /\ begins' = begins) =>
          /\ fun' = fun
          /\ n' = n
          /\ ctor_size' = ctor_size
          /\ rep' = rep
          /\ IF ViewTakeInc /\ exactly /\ cls = "input"
             THEN target_size' = (target_size - 1) % SizeMod
             ELSE target_size' = target_size]_vars

C22_Witness ==
    /\ kind = "take" /\ rep = "view_take"
    /\ exactly /\ cls = "input"
    /\ begins = 1 /\ Std /\ proto = "done"
    /\ ctor_size = 3 /\ base = 3
    /\ target_size = 0

\* C23: in non-consuming take_until begin() and operator++ never invoke the
\* functor; a comparison with the sentinel invokes it once, on the element
\* the cursor stands on, and not at all at the underlying end, so that a
\* traversal has invoked it once for every position it compared.
C23_PredicateOncePerComparison ==
    /\ [](/\ (kind = "take_until" /\ ~UseConsumeIterator /\ Std) =>
                calls = IF proto \in {"cmp", "adv"} THEN Len(out)
                        ELSE IF proto = "deref" THEN Len(out) + 1
                        ELSE IF base < Len(s) THEN Len(out) + 1
                        ELSE Len(out)
          /\ (kind = "take_until" /\ ~UseConsumeIterator /\ pc = "iter"
              /\ base < Len(s)) =>
                ((UntilEq(base) = "true") <=> (s[base + 1] \in fun)))
    /\ [][/\ (TakeUntilBegin /\ ~UseConsumeIterator) => calls' = 0
          /\ (TakeUntilInc /\ proto = "adv") => calls' = calls
          /\ (TakeUntilCompare /\ proto = "cmp") =>
                calls' = IF base < Len(s) THEN calls + 1 ELSE calls]_vars

C23_Witness ==
    /\ kind = "take_until" /\ ~UseConsumeIterator
    /\ Std /\ proto = "done"
    /\ s = <<"a", "a", "b", "a">> /\ fun = {"b"}
    /\ out = <<"a", "a">>
    /\ base = 2
    /\ calls = 3

\* C24: building a view moves nothing and begin() of take or of
\* non-consuming take_until moves and reads nothing; in a traversal the
\* underlying range has been advanced once for every advance of the cursor
\* and an element is read only below the bound, so that after a traversal
\* of take(s, n) with n <= length(s) the underlying position is n and the
\* elements read are those before index n.
C24_Lazy ==
    /\ pc = "view" => (base = 0 /\ out = << >> /\ calls = 0)
    /\ (Std /\ (kind = "take" \/ ~UseConsumeIterator)) =>
          /\ base = IF proto = "adv" THEN Len(out) - 1 ELSE Len(out)
          /\ rep = "view_take" => pos = base
          /\ out = Prefix(Len(out))
    /\ (Std /\ kind = "take" /\ n <= Len(s)) =>
          /\ proto \in {"deref", "adv"} => base < n
          /\ proto = "done" => (base = n /\ out = Prefix(n))

C24_Witness ==
    /\ kind = "take" /\ rep = "view_take" /\ cls = "input"
    /\ Std /\ proto = "done"
    /\ n = 2 /\ Len(s) = 4
    /\ base = 2 /\ pos = 2
    /\ out = Prefix(2)

\* C26: the iterator of a take_until view whose functor is not regular
\* advertises no more than single-pass traversal.
C26_Original ==
    (kind = "take_until" /\ rep = "view_take_until" /\ ~regular) =>
        IteratorConcept = "input"

\* C27: the constructor of view_take, called directly with exactly and
\* or_throw on a sized range shorter than the requested size, throws
\* unexpected_end_of_input.
C27_Original ==
    (kind = "take" /\ entry = "ctor" /\ exactly /\ or_throw /\ sized
     /\ Len(s) < n) =>
        (pc = "thrown" /\ err = "unexpected_end_of_input")

\* C28: a traversal of views::take_until_and_consume (and_consume without
\* or_throw) over a range with no element the functor is true on ends with
\* unexpected_end_of_input.
C28_Original ==
    (kind = "take_until" /\ and_consume /\ ~or_throw /\ Matches = {}
     /\ Std /\ proto = "done") =>
        (pc = "thrown" /\ err = "unexpected_end_of_input")

\* C29: what the take adaptor returns is decided by the capabilities of the
\* range alone: a contiguous, sized, forwarding range gives a contiguous
\* slice (string_view or span) of the validated or clamped size, a
\* random-access, sized, forwarding range gives a subrange of that size,
\* anything else gives view_take; and nothing done with the result changes
\* what it is.
C29_RepresentationByCapability ==
    /\ []((kind = "take" /\ entry = "adaptor" /\ rep # "none") =>
            /\ rep \in IF cls = "contiguous" /\ sized /\ forwarding
                       THEN {"string_view", "span"}
                       ELSE IF cls = "random_access" /\ sized /\ forwarding
                       THEN {"subrange"}
                       ELSE {"view_take"}
            /\ rep # "view_take" =>
                  /\ target_size = IF or_throw THEN n ELSE Min(n, Len(s))
                  /\ target_size <= Len(s))
    /\ [][rep # "none" => rep' = rep]_vars

C29_Witness ==
    /\ kind = "take" /\ entry = "adaptor"
    /\ rep = "span"
    /\ Std /\ proto = "done"
    /\ n = 2 /\ Len(s) = 3
    /\ target_size = 2
    /\ out = Prefix(2)

\* C30: whatever increments, decrements and jumps a view_take cursor has
\* made, its pos is the distance of its underlying iterator from the begin
\* of the underlying range (for a single-pass range: of the first cursor),
\* its bound is the size the view was built with, and its comparison with
\* the sentinel is true when that distance has reached n, throws under
\* or_throw or is true otherwise when the underlying range is at its end
\* before that, and is false in every other case.
C30_OffsetIsDistance ==
    (kind = "take" /\ rep = "view_take" /\ pc = "iter"
     /\ (cls # "input" \/ begins = 1)) =>
        /\ pos = base
        /\ max_pos = ctor_size
        /\ TakeEq(pos, max_pos, base) =
              IF base >= n THEN "true"
              ELSE IF base = Len(s)
                   THEN (IF or_throw THEN "throw" ELSE "true")
                   ELSE "false"

C30_Witness ==
    /\ kind = "take" /\ rep = "view_take" /\ pc = "iter"
    /\ cls = "random_access"
    /\ begins = 1 /\ proto = "off"
    /\ n = 3 /\ Len(s) = 4
    /\ pos = 2 /\ base = 2
    /\ TakeEq(pos, max_pos, base) = "false"

\* C31: take with or_throw over a range of unknown size is never rejected,
\* and its traversal ends with unexpected_end_of_input exactly when
\* length(s) < n; with length(s) = n the comparison after the n-th
\* increment is true.
C31_UnsizedOrThrowRaisesIffShort ==
    (kind = "take" /\ or_throw /\ ~sized /\ pc # "start") =>
        /\ rep = "view_take"
        /\ err # "invalid_argument"
        /\ Std =>
              /\ proto # "done" => err = "none"
              /\ proto = "done" =>
                    ((err = "unexpected_end_of_input") <=> (Len(s) < n))
              /\ (proto = "done" /\ Len(s) >= n) => out = Prefix(n)

C31_Witness ==
    /\ kind = "take" /\ or_throw /\ ~sized
    /\ Std /\ proto = "done"
    /\ n = 2 /\ Len(s) = 2
    /\ pos = 2 /\ base = 2
    /\ out = s
    /\ err = "none"

\* C32: unexpected_end_of_input appears only in a step that compares a
\* cursor with its sentinel, under or_throw; building the view, begin(),
\* operator* and the operators that move the cursor never throw it, also
\* when the consuming constructor or operator++ runs into the underlying
\* end.
C32_OnlyComparisonRaises ==
    /\ [](err = "unexpected_end_of_input" => (or_throw /\ pc = "thrown"))
    /\ [][/\ (err' = "unexpected_end_of_input" /\ err = "none") =>
                (ViewTakeCompare \/ TakeUntilCompare \/ ConsumeCompare)
          /\ pc = "start" => err' # "unexpected_end_of_input"
          /\ (begins' # begins \/ base' # base) =>
                (err' = err /\ pc' = "iter")]_vars

C32_Witness ==
    /\ kind = "take_until" /\ UseConsumeIterator /\ or_throw
    /\ Std /\ proto = "cmp"
    /\ Len(s) = 3 /\ s[1] \notin fun /\ s[3] \in fun
    /\ out = <<s[1]>>
    /\ base = Len(s)
    /\ at_end_gracefully
    /\ err = "none" /\ pc = "iter"

\* C33: the consuming cursor of the first begin() over a range with an
\* element the functor is true on never throws under or_throw, whatever is
\* done with it, also when the run of matching elements ends at the
\* underlying end: a set at_end_gracefully makes the comparison true before
\* the underlying end is looked at.
C33_MatchPreventsRaise ==
    (kind = "take_until" /\ UseConsumeIterator /\ or_throw) =>
        /\ (Matches # {} /\ begins <= 1) => (err = "none" /\ pc # "thrown")
        /\ (pc = "iter" /\ at_end_gracefully) => CursorEq = "true"

C33_Witness ==
    /\ kind = "take_until" /\ UseConsumeIterator /\ or_throw
    /\ Std /\ proto = "done"
    /\ s = <<"a", "a", "b">> /\ fun = {"b"}
    /\ base = 3
    /\ at_end_gracefully
    /\ out = <<"a", "a">>
    /\ err = "none"

\* C34: with a regular functor a consuming cursor whose at_end_gracefully
\* is not set and that is not at the underlying end stands on an element
\* the functor is false on, so that its comparison is false there and a
\* traversal yields no element the functor is true on.
C34_ActiveStandsOnNonMatch ==
    (kind = "take_until" /\ UseConsumeIterator /\ regular /\ pc = "iter") =>
        /\ (~at_end_gracefully /\ base < Len(s)) =>
              /\ s[base + 1] \notin fun
              /\ CursorEq = "false"
        /\ proto \in {"cmp", "deref", "adv", "done"} =>
              \A i \in 1..Len(out) : out[i] \notin fun

C34_Witness ==
    /\ kind = "take_until" /\ UseConsumeIterator /\ regular /\ pc = "iter"
    /\ Std /\ proto = "cmp"
    /\ s = <<"a", "a", "b", "a">> /\ fun = {"b"}
    /\ base = 1
    /\ ~at_end_gracefully
    /\ out = <<"a">>

\* C37: a string_view, span or subrange returned by the take adaptor is
\* never longer than the underlying range, and its iterator never stands
\* past the underlying end.
C37_SliceWithinRange ==
    (kind = "take" /\ rep \in {"string_view", "span", "subrange"}) =>
        /\ sized
        /\ entry = "adaptor"
        /\ target_size <= USize
        /\ base <= target_size
        /\ Len(out) <= target_size

C37_Witness ==
    /\ kind = "take" /\ rep = "subrange"
    /\ ~or_throw
    /\ n > Len(s) /\ Len(s) = 2
    /\ target_size = 2
    /\ Std /\ proto = "done"
    /\ base = 2

\* The elements of a sequence the functor is false on, in order.
NonMatching(seq) ==
    SelectSeq(seq, LAMBDA x : x \notin fun)

\* C35: consuming cursors made one after the other over the same
\* single-pass range, each traversed to its end: what they yielded so far,
\* one after the other, is the elements the functor is false on among those
\* the range has been moved past, in order and each once; so every element
\* passed without being yielded is one the functor is true on, and once the
\* range is at its end the cursors have yielded all elements of s the
\* functor is false on.
C35_TokensLoseNothing ==
    (kind = "take_until" /\ UseConsumeIterator /\ prior # Abandoned
     /\ proto \in {"cmp", "deref", "adv", "done"}) =>
        LET passed == IF proto = "adv" THEN base + 1 ELSE base
        IN  /\ prior \o out = NonMatching(SubSeq(s, 1, passed))
            /\ Len(prior) + Len(out) + Cardinality({i \in Matches : i <= passed})
                  = passed

C35_Witness ==
    /\ kind = "take_until" /\ UseConsumeIterator
    /\ s = <<"a", "b", "a", "b">> /\ fun = {"b"}
    /\ begins = 2 /\ proto = "done"
    /\ prior = <<"a">>
    /\ out = <<"a">>
    /\ base = Len(s)

\* C36: an exactly view over a single-pass range whose cursors are only
\* moved by standard traversals: the underlying range is never advanced
\* more often than the size the view was built with, so target_size is that
\* size less the advances, between 0 and n, and does not wrap; also for
\* n = 0 and for a range shorter than n.
C36_CounterNeverUnderflows ==
    (kind = "take" /\ rep = "view_take" /\ exactly /\ cls = "input"
     /\ prior # Abandoned /\ proto # "off") =>
        /\ base <= ctor_size
        /\ target_size = ctor_size - base
        /\ target_size \in 0..n
        /\ pc = "iter" => max_pos - pos = target_size

C36_Witness ==
    /\ kind = "take" /\ rep = "view_take" /\ exactly /\ cls = "input"
    /\ begins = 2 /\ proto = "done" /\ prior # Abandoned
    /\ ctor_size = 2 /\ Len(s) = 3
    /\ base = 2
    /\ target_size = 0

\* C38: in balance_trailing_gaps no assertion fails: every gap_size
\* computed is the dimension less the smaller of the dimension and the
\* place where the band ends, and so is not negative, for all dimensions
\* and band bounds the arithmetic does not overflow on.
C38_GapSizesNotNegative ==
    bpc \in {"returned", "aborted"} =>
        LET row == ~find_in_last_row /\ ~find_in_every_cell
            col == ~find_in_last_column /\ ~find_in_every_cell
            first == dimension_first
                        - Min(upper_bound + dimension_second, dimension_first)
            second == dimension_second
                        - Min(dimension_first - lower_bound, dimension_second)
        IN  /\ bpc = "returned"
            /\ \A i \in 1..Len(gap_size) : gap_size[i] >= 0
            /\ gap_size = (IF row THEN <<first>> ELSE << >>)
                              \o (IF col THEN <<second>> ELSE << >>)

C38_Witness ==
    /\ bpc = "returned"
    /\ dimension_first = 3 /\ dimension_second = 2
    /\ upper_bound = -1 /\ lower_bound = 2
    /\ gap_size = <<2, 1>>

====
